---- MODULE Spec2Model ----
(***************************************************************************)
(* A model of suffixarray.js: the radix sort bsort, the entry point        *)
(* suffixArray and the recursive builder _suffixArray (Karkkainen-Sanders).*)
(* JavaScript arrays are 0-based; the sequences below are 1-based, so the  *)
(* array element x[i] of the source is x[i + 1] here.                      *)
(***************************************************************************)
EXTENDS Integers, Sequences, FiniteSets, TLC

\* ---------------------------------------------------------------- bounds
\* Longest text over TextSyms passed without a second argument.
MaxLen == 7
\* Longest text passed with an explicit second argument (a length or a string).
MaxExplicit == 3
\* Longest sequence passed as a function with its length.
MaxFnLen == 5
\* Largest symbol a function input returns (its symbols are 0..MaxSym).
MaxSym == 1
\* Longest array handed to bsort on its own.
MaxItems == 3

\* Character codes of "a" and "b".
TextSyms == {97, 98}
\* "banana" and "Sort this!" as character codes.
Banana == <<98, 97, 110, 97, 110, 97>>
SortThis == <<83, 111, 114, 116, 32, 116, 104, 105, 115, 33>>
RefTexts == {Banana, SortThis}
\* Keys handed to bsort on its own: they straddle the 8, 16, 24 and 32 bit widths.
BsortKeys == {0, 3, 19, 255, 256, 65539, 16777216, 2147483647}

VARIABLES
    phase,   \* "idle" | "running" | "returned": where the call of suffixArray stands
    call,    \* the arguments of the call of suffixArray
    stack,   \* the activations of _suffixArray, the innermost last
    ret,     \* the array suffixArray returned
    bs       \* the activation of bsort when it is run on its own

vars == <<phase, call, stack, ret, bs>>

\* ------------------------------------------------------------- sequences
Range(s) == {s[i] : i \in 1..Len(s)}

Reverse(s) == [i \in 1..Len(s) |-> s[Len(s) + 1 - i]]

RECURSIVE SeqsUpTo(_, _)
SeqsUpTo(S, n) ==
    IF n = 0 THEN {<<>>}
    ELSE LET shorter == SeqsUpTo(S, n - 1)
         IN shorter \cup {Append(s, x) : s \in {t \in shorter : Len(t) = n - 1}, x \in S}

\* ------------------------------------------------------------------ bsort
\* x >> n on a 32-bit integer x (sign-propagating shift).
Shr(x, n) == x \div (2 ^ n)

\* (k >> d) & 15
Digit(k, d) == Shr(k, d) % 16

\* while (i--) j = Math.max(key(a[i]), j), from j = -1
RECURSIVE MaxKey(_, _, _)
MaxKey(a, key, i) ==
    IF i = 0 THEN -1
    ELSE LET j == MaxKey(a, key, i - 1)
         IN IF key[a[i]] > j THEN key[a[i]] ELSE j

\* A variant that never widens: bits = 8 whatever the maximum key.
BitsNarrow(j) == 8

\* bits = j >> 24 && 32 || j >> 16 && 24 || j >> 8 && 16 || 8
Bits(j) ==
    IF Shr(j, 24) # 0 THEN 32
    ELSE IF Shr(j, 16) # 0 THEN 24
    ELSE IF Shr(j, 8) # 0 THEN 16
    ELSE 8

\* buckets[b] after "for (i = len; i--;) buckets[(key(a[i]) >> d) & 15].push(a[i])":
\* the items of digit b, the last of a first.
Bucket(a, key, d, b) == Reverse(SelectSeq(a, LAMBDA x : Digit(key[x], d) = b))

\* for (b = 0; b < 16; b++) for (j = buckets[b].length; j--;) a[++i] = buckets[b][j]
RECURSIVE Collect(_, _, _, _)
Collect(a, key, d, b) ==
    IF b = 16 THEN <<>>
    ELSE Reverse(Bucket(a, key, d, b)) \o Collect(a, key, d, b + 1)

\* One turn of "for (; d < bits; d += 4)".
BsortPass(a, key, d) == Collect(a, key, d, 0)

\* for (; d < bits; d += 4) { ... }; return a. Each pass works on the array the
\* pass before it left (next is that array, computed once).
RECURSIVE BsortLoop(_, _, _, _)
BsortLoop(a, key, d, bits) ==
    IF d < bits
    THEN CHOOSE out \in {BsortLoop(next, key, d + 4, bits) :
                            next \in {BsortPass(a, key, d)}} : TRUE
    ELSE a

\* bsort(a, key), key given as the function item |-> key(item). The array and
\* the keys are values by the time the loops run (a0 and k0, computed once).
bsort(a, key) ==
    CHOOSE out \in {BsortLoop(a0, k0, 0, Bits(MaxKey(a0, k0, Len(a0)))) :
                        a0 \in {a}, k0 \in {key}} : TRUE

\* ------------------------------------------------------------ suffixArray
\* The second argument of suffixArray as the caller wrote it: nothing, a number,
\* or a string such as "min" or "wrap".
Undefined == [t |-> "undefined", n |-> 0, v |-> ""]
Number(n) == [t |-> "number", n |-> n, v |-> ""]
String(v) == [t |-> "string", n |-> 0, v |-> v]

\* The truth value JavaScript gives x in "len || s.length".
Truthy(x) ==
    CASE x.t = "undefined" -> FALSE
      [] x.t = "number" -> x.n # 0
      [] OTHER -> x.v # ""

\* suffixArray(s, len) on a string s: "len || s.length".
TextLen(data, len) == IF Truthy(len) THEN len ELSE Number(Len(data))

\* The second argument as _suffixArray receives it.
BuilderLen(c) == IF c.kind = "text" THEN TextLen(c.data, c.len) ELSE c.len

\* The length as the arithmetic and the loop guards of _suffixArray see it. A
\* string that is no numeral converts to NaN: floor(2 * NaN / 3) is NaN, (NaN + 1) >> 1
\* is 0, and "while (i--)", "i < alen", "j < alen - 1", "len % 3 == 1", "j < blen" are
\* all false on NaN, so the activation runs as the one of length 0 does.
GuardLen(len) == IF len.t = "number" THEN len.n ELSE 0

\* ----------------------------------------------------------- _suffixArray
\* s(i) of an activation f: function(i) { return i >= len ? 0 : s(i) }, and for a
\* nested activation function(i) { return i >= alen ? 0 : b[i] }.
S(f, i) == IF i >= f.len THEN 0 ELSE f.data[i + 1]

\* alen = floor(2 * len / 3)
Alen(len) == (2 * len) \div 3
\* blen = len - alen
Blen(len) == len - Alen(len)
\* r = (alen + 1) >> 1
R(len) == (Alen(len) + 1) \div 2

\* while (i--) a[i] = ((i * 3) >> 1) + 1
InitA(alen) == [i \in 1..alen |-> (((i - 1) * 3) \div 2) + 1]

\* for (i = 3; i--;) bsort(a, function(j) { return s(i + j) })
\* (a2 is a after the sort on s(2 + j), a1 after the sort on s(1 + j).)
TripletSort(f, a) ==
    CHOOSE out \in {bsort(a1, [x \in Range(a1) |-> S(f, 0 + x)]) :
                        a1 \in {bsort(a2, [x \in Range(a2) |-> S(f, 1 + x)]) :
                                    a2 \in {bsort(a, [x \in Range(a) |-> S(f, 2 + x)])}}} : TRUE

\* floor(a[i] / 3) + (a[i] % 3 == 1 ? 0 : r)
Slot(x, r) == (x \div 3) + (IF x % 3 = 1 THEN 0 ELSE r)

\* s(a[i]) != s(a[i-1]) || s(a[i] + 1) != s(a[i-1] + 1) || s(a[i] + 2) != s(a[i-1] + 2)
Differs(f, x, y) ==
    \/ S(f, x) # S(f, y)
    \/ S(f, x + 1) # S(f, y + 1)
    \/ S(f, x + 2) # S(f, y + 2)

\* The lexical name j when the naming loop has stored the name of a[i].
RECURSIVE NameAt(_, _, _)
NameAt(f, a, i) ==
    IF i = 0 THEN 0
    ELSE NameAt(f, a, i - 1) + (IF Differs(f, a[i + 1], a[i]) THEN 1 ELSE 0)

\* The array b of lexical names after the naming loop.
Names(f, a) ==
    [p \in 1..Len(a) |->
        LET i == CHOOSE i \in 0..(Len(a) - 1) : Slot(a[i + 1], R(f.len)) = p - 1
        IN NameAt(f, a, i)]

\* j after the naming loop ("j = b[...] = 0" even when a is empty).
LastName(f, a) == IF Len(a) = 0 THEN 0 ELSE NameAt(f, a, Len(a) - 1)

\* A variant off by one: if (j <= alen - 1), which recurses on unique names too.
MustRecurseOffByOne(j, alen) == j <= alen - 1

\* if (j < alen - 1)
MustRecurse(j, alen) == j < alen - 1

\* A variant without the i % 3 == 2 branch: a[i] = b[i] * 3 + 1.
MapBackNoOffset(b, r) == [i \in 1..Len(b) |-> b[i] * 3 + 1]

\* a[i] = b[i] < r ? b[i] * 3 + 1 : ((b[i] - r) * 3 + 2)
MapBack(b, r) ==
    [i \in 1..Len(b) |-> IF b[i] < r THEN b[i] * 3 + 1 ELSE (b[i] - r) * 3 + 2]

\* b = []; for (...) if (a[i] % 3 == 1) b.push(a[i] - 1); if (len % 3 == 1) b.push(len - 1);
\* bsort(b, function(j) { return s(j) })
SortS0(f) ==
    LET ones == SelectSeq(f.a, LAMBDA x : x % 3 = 1)
        pushed == [i \in 1..Len(ones) |-> ones[i] - 1]
        b == IF f.len % 3 = 1 THEN Append(pushed, f.len - 1) ELSE pushed
    IN bsort(b, [x \in Range(b) |-> S(f, x)])

\* while (i--) lookup[a[i]] = i
Lookup(a) == [x \in Range(a) |-> (CHOOSE i \in 1..Len(a) : a[i] = x) - 1]

\* lookup[x] - lookup[y] < 0. An index the table does not hold reads as undefined,
\* the difference is then NaN, and NaN < 0 is false.
LookupLess(lookup, x, y) ==
    /\ x \in DOMAIN lookup
    /\ y \in DOMAIN lookup
    /\ lookup[x] - lookup[y] < 0

\* tmp < 0 for the tmp of the merge loop, comparing x = a[i] with y = b[j].
TakesA(f, x, y) ==
    IF S(f, x) - S(f, y) # 0 THEN S(f, x) - S(f, y) < 0
    ELSE IF x % 3 = 2
         THEN IF S(f, x + 1) - S(f, y + 1) # 0 THEN S(f, x + 1) - S(f, y + 1) < 0
              ELSE LookupLess(f.lookup, x + 2, y + 2)
         ELSE LookupLess(f.lookup, x + 1, y + 1)

\* A fresh activation of _suffixArray(s, len).
Frame(data, len) ==
    [data |-> data, len |-> len, a |-> <<>>, b |-> <<>>, j |-> 0,
     lookup |-> <<>>, i |-> 0, jm |-> 0, result |-> <<>>, pc |-> "start"]

Top == stack[Len(stack)]
SetTop(f) == [stack EXCEPT ![Len(stack)] = f]

\* --------------------------------------------------- the call, step by step
\* The calls of suffixArray that are made.
Calls ==
    \* suffixArray(text)
    {[kind |-> "text", data |-> d, len |-> Undefined] :
        d \in SeqsUpTo(TextSyms, MaxLen) \cup RefTexts}
    \cup
    \* suffixArray(text, L) with 0 <= L <= text.length
    {[kind |-> "text", data |-> c[1], len |-> Number(c[2])] :
        c \in {x \in SeqsUpTo(TextSyms, MaxExplicit) \X (0..MaxExplicit) : x[2] <= Len(x[1])}}
    \cup
    \* suffixArray(text, "min") and suffixArray(text, "wrap")
    {[kind |-> "text", data |-> c[1], len |-> String(c[2])] :
        c \in (SeqsUpTo(TextSyms, MaxExplicit) \cup {Banana}) \X {"min", "wrap"}}
    \cup
    \* suffixArray(function, length)
    {[kind |-> "fn", data |-> d, len |-> Number(Len(d))] :
        d \in SeqsUpTo(0..MaxSym, MaxFnLen)}

\* global.suffixArray = function(s, len): both branches end in _suffixArray(wrapped s, len).
CallSuffixArray ==
    /\ phase = "idle"
    /\ bs.pc = "idle"
    /\ \E c \in Calls :
          /\ call' = c
          /\ stack' = <<Frame(c.data, GuardLen(BuilderLen(c)))>>
    /\ phase' = "running"
    /\ UNCHANGED <<ret, bs>>

\* Lines 116-146: a = [1, 2, 4, 5, ...], the three radix sorts, the lexical names.
SortTriplets ==
    /\ phase = "running"
    /\ Top.pc = "start"
    /\ \E a \in {TripletSort(Top, InitA(Alen(Top.len)))} :
          stack' = SetTop([Top EXCEPT !.a = a, !.b = Names(Top, a),
                                      !.j = LastName(Top, a), !.pc = "named"])
    /\ UNCHANGED <<phase, call, ret, bs>>

\* Line 150 false: the names are unique and a is kept.
Accept ==
    /\ phase = "running"
    /\ Top.pc = "named"
    /\ ~MustRecurse(Top.j, Alen(Top.len))
    /\ stack' = SetTop([Top EXCEPT !.pc = "sortS0"])
    /\ UNCHANGED <<phase, call, ret, bs>>

\* Lines 150-155: _suffixArray(function(i) { return i >= alen ? 0 : b[i] }, alen) is entered.
Recurse ==
    /\ phase = "running"
    /\ Top.pc = "named"
    /\ MustRecurse(Top.j, Alen(Top.len))
    /\ stack' = Append(SetTop([Top EXCEPT !.pc = "waiting"]),
                       Frame(Top.b, Alen(Top.len)))
    /\ UNCHANGED <<phase, call, ret, bs>>

\* Lines 155-157: the nested activation returns into b, and a is rebuilt from it.
Return ==
    /\ phase = "running"
    /\ Len(stack) > 1
    /\ Top.pc = "done"
    /\ LET caller == stack[Len(stack) - 1]
           b == Top.result
       IN stack' = [SubSeq(stack, 1, Len(stack) - 1) EXCEPT ![Len(stack) - 1] =
                        [caller EXCEPT !.b = b, !.a = MapBack(b, R(caller.len)),
                                       !.pc = "sortS0"]]
    /\ UNCHANGED <<phase, call, ret, bs>>

\* Lines 162-168: the suffixes at i % 3 == 0, sorted by their first symbol.
SortRemaining ==
    /\ phase = "running"
    /\ Top.pc = "sortS0"
    /\ stack' = SetTop([Top EXCEPT !.b = SortS0(Top), !.i = Alen(Top.len), !.pc = "lookup"])
    /\ UNCHANGED <<phase, call, ret, bs>>

\* Lines 174-175 and the loop header of line 182.
BuildLookup ==
    /\ phase = "running"
    /\ Top.pc = "lookup"
    /\ stack' = SetTop([Top EXCEPT !.lookup = Lookup(Top.a), !.i = 0, !.jm = 0,
                                   !.pc = "merge"])
    /\ UNCHANGED <<phase, call, ret, bs>>

\* One turn of the loop of lines 182-188.
MergeStep ==
    /\ phase = "running"
    /\ Top.pc = "merge"
    /\ Top.i < Alen(Top.len) /\ Top.jm < Blen(Top.len)
    /\ LET f == Top
           x == f.a[f.i + 1]
           y == f.b[f.jm + 1]
       IN stack' = SetTop(IF TakesA(f, x, y)
                          THEN [f EXCEPT !.result = Append(f.result, x), !.i = f.i + 1]
                          ELSE [f EXCEPT !.result = Append(f.result, y), !.jm = f.jm + 1])
    /\ UNCHANGED <<phase, call, ret, bs>>

\* Lines 189-194: the rest of a, then the rest of b; return result.
Drain ==
    /\ phase = "running"
    /\ Top.pc = "merge"
    /\ ~(Top.i < Alen(Top.len) /\ Top.jm < Blen(Top.len))
    /\ LET f == Top
       IN stack' = SetTop([f EXCEPT
              !.result = f.result \o SubSeq(f.a, f.i + 1, Alen(f.len))
                                  \o SubSeq(f.b, f.jm + 1, Blen(f.len)),
              !.i = IF f.i < Alen(f.len) THEN Alen(f.len) ELSE f.i,
              !.jm = IF f.jm < Blen(f.len) THEN Blen(f.len) ELSE f.jm,
              !.pc = "done"])
    /\ UNCHANGED <<phase, call, ret, bs>>

\* The outermost activation returns, and suffixArray returns its array.
Finish ==
    /\ phase = "running"
    /\ Len(stack) = 1
    /\ Top.pc = "done"
    /\ ret' = Top.result
    /\ phase' = "returned"
    /\ UNCHANGED <<call, stack, bs>>

Init ==
    /\ phase = "idle"
    /\ call = [kind |-> "none", data |-> <<>>, len |-> Undefined]
    /\ stack = <<>>
    /\ ret = <<>>
    /\ bs = [pc |-> "idle", a |-> <<>>, orig |-> <<>>, key |-> <<>>, j |-> -1, d |-> 0, bits |-> 0]

Next ==
    \/ CallSuffixArray
    \/ SortTriplets
    \/ Accept
    \/ Recurse
    \/ Return
    \/ SortRemaining
    \/ BuildLookup
    \/ MergeStep
    \/ Drain
    \/ Finish

Spec == Init /\ [][Next]_vars

\* The call is one synchronous computation: a step that can be taken is taken.
SpecFair == Init /\ [][Next]_vars /\ WF_vars(Next)

\* ------------------------------------------------ bsort run on its own
BsIdle == [pc |-> "idle", a |-> <<>>, orig |-> <<>>, key |-> <<>>, j |-> -1, d |-> 0, bits |-> 0]

\* bsort is entered with an array of distinct items 1..n and any keys for them.
BsortEnter ==
    /\ bs.pc = "idle"
    /\ \E key \in SeqsUpTo(BsortKeys, MaxItems) :
          LET a == [i \in 1..Len(key) |-> i]
              j == MaxKey(a, key, Len(a))
          IN bs' = [pc |-> "passes", a |-> a, orig |-> a, key |-> key, j |-> j,
                    d |-> 0, bits |-> Bits(j)]
    /\ UNCHANGED <<phase, call, stack, ret>>

BsortStep ==
    /\ bs.pc = "passes"
    /\ bs.d < bs.bits
    /\ bs' = [bs EXCEPT !.a = BsortPass(bs.a, bs.key, bs.d), !.d = bs.d + 4]
    /\ UNCHANGED <<phase, call, stack, ret>>

BsortReturn ==
    /\ bs.pc = "passes"
    /\ ~(bs.d < bs.bits)
    /\ bs' = [bs EXCEPT !.pc = "returned"]
    /\ UNCHANGED <<phase, call, stack, ret>>

InitBsort ==
    /\ phase = "idle"
    /\ call = [kind |-> "none", data |-> <<>>, len |-> Undefined]
    /\ stack = <<>>
    /\ ret = <<>>
    /\ bs = BsIdle

NextBsort == BsortEnter \/ BsortStep \/ BsortReturn

SpecBsort == InitBsort /\ [][NextBsort]_vars

\* ------------------------------------------------------------ the oracle
\* The suffix of data[0 .. n-1] at x is smaller than the one at y: at the first
\* place they differ x has the smaller symbol, or x's suffix ends there (the
\* shorter suffix wins when it is a prefix of the other).
SuffixLess(data, n, x, y) ==
    \E k \in 0..n :
        /\ \A m \in 0..(k - 1) :
              x + m < n /\ y + m < n /\ data[x + m + 1] = data[y + m + 1]
        /\ \/ x + k >= n /\ y + k < n
           \/ x + k < n /\ y + k < n /\ data[x + k + 1] < data[y + k + 1]

\* arr lists its indices in strictly ascending order of their suffixes.
SuffixSorted(data, n, arr) ==
    \A p \in 1..(Len(arr) - 1) : SuffixLess(data, n, arr[p], arr[p + 1])

\* arr holds every element of the set idx exactly once and nothing else.
ListsExactly(arr, idx) ==
    /\ Len(arr) = Cardinality(idx)
    /\ Range(arr) = idx

\* The circular suffix of data at x is at most the one at y (reads at i >= n are
\* reads at i mod n).
CircularLeq(data, n, x, y) ==
    \/ \A m \in 0..(n - 1) : data[((x + m) % n) + 1] = data[((y + m) % n) + 1]
    \/ \E k \in 0..(n - 1) :
          /\ \A m \in 0..(k - 1) : data[((x + m) % n) + 1] = data[((y + m) % n) + 1]
          /\ data[((x + k) % n) + 1] < data[((y + k) % n) + 1]

Positive(data) == \A i \in 1..Len(data) : data[i] > 0

\* The call was suffixArray(text) or suffixArray(function, length) on positive symbols.
DefaultCall ==
    /\ Positive(call.data)
    /\ \/ call.kind = "text" /\ call.len = Undefined
       \/ call.kind = "fn" /\ call.len = Number(Len(call.data))

Text(data, len) == [kind |-> "text", data |-> data, len |-> len]

\* The outermost activation, of a call on positive symbols.
Outer == stack[1]
OuterCase == phase = "running" /\ Len(stack) = 1 /\ DefaultCall

S12(n) == {i \in 0..(n - 1) : i % 3 # 0}
S0(n) == {i \in 0..(n - 1) : i % 3 = 0}

\* ------------------------------------------------------------- the claims
\* C1: on a sequence of positive symbols under the default policy, suffixArray
\* returns every index of [0, N) in strictly ascending order of the suffixes
\* (the brute-force suffix sort), for every N, "aa" and "aaaa" included.
C1_MatchesSuffixSort ==
    (phase = "returned" /\ DefaultCall) =>
        /\ ListsExactly(ret, 0..(Len(call.data) - 1))
        /\ SuffixSorted(call.data, Len(call.data), ret)

\* C2: every activation of _suffixArray on an integer length N returns an array
\* of length N that holds every index of [0, N) exactly once, at every depth of
\* the recursion, and so does suffixArray for the length it hands to the builder.
C2_Permutation ==
    /\ \A d \in 1..Len(stack) :
          stack[d].pc = "done" =>
              ListsExactly(stack[d].result, 0..(stack[d].len - 1))
    /\ (phase = "returned" /\ BuilderLen(call).t = "number") =>
          ListsExactly(ret, 0..(BuilderLen(call).n - 1))

\* C2 witness: a call on a sequence with zero symbols returned five or more
\* indices after its outermost activation had recursed.
C2_Witness ==
    /\ phase = "returned"
    /\ Len(ret) >= 5
    /\ ~Positive(call.data)
    /\ MustRecurse(stack[1].j, Alen(stack[1].len))

\* C3: with "wrap" as the policy argument the result lists the positions in the
\* order of their circular suffixes; suffixArray("baa", "wrap") is [1, 2, 0] and
\* suffixArray("baa", "min") is [2, 1, 0].
C3_WrapPolicy ==
    phase = "returned" =>
        /\ (call.kind = "text" /\ call.len = String("wrap")) =>
              /\ ListsExactly(ret, 0..(Len(call.data) - 1))
              /\ \A p \in 1..(Len(ret) - 1) :
                    CircularLeq(call.data, Len(call.data), ret[p], ret[p + 1])
        /\ call = Text(<<98, 97, 97>>, String("wrap")) => ret = <<1, 2, 0>>
        /\ call = Text(<<98, 97, 97>>, String("min")) => ret = <<2, 1, 0>>

\* C4: the documented calls return the documented arrays, and "min" given
\* explicitly returns what the call without it returns.
C4_ReferenceVectors ==
    phase = "returned" =>
        /\ call = Text(<<>>, Undefined) => ret = <<>>
        /\ call = Text(<<97>>, Undefined) => ret = <<0>>
        /\ call = Text(<<97, 97, 97>>, String("min")) => ret = <<2, 1, 0>>
        /\ call = Text(<<98, 97, 97>>, String("min")) => ret = <<2, 1, 0>>
        /\ call = Text(Banana, String("min")) => ret = <<5, 3, 1, 0, 4, 2>>
        /\ call = Text(SortThis, Undefined) => ret = <<4, 9, 0, 6, 7, 1, 2, 8, 3, 5>>
        /\ call = Text(<<97, 97, 97>>, Undefined) => ret = <<2, 1, 0>>
        /\ call = Text(<<98, 97, 97>>, Undefined) => ret = <<2, 1, 0>>
        /\ call = Text(Banana, Undefined) => ret = <<5, 3, 1, 0, 4, 2>>

\* C5: suffixArray(text, L) with 0 <= L <= text.length returns exactly L indices,
\* the suffix array of the first L characters; L = 0 returns [].
C5_ExplicitLength ==
    (phase = "returned" /\ call.kind = "text" /\ call.len.t = "number") =>
        /\ ListsExactly(ret, 0..(call.len.n - 1))
        /\ SuffixSorted(call.data, call.len.n, ret)

\* Two indices of S12 of the activation f start equal triplets.
EqualTriplets(f) ==
    \E x, y \in S12(f.len) : x # y /\ ~Differs(f, x, y)

\* Every nested activation works on the names of its caller, a problem of size
\* floor(2N/3) < N, and is there only because two triplets of the caller are equal.
RecursionShrinks ==
    \A d \in 2..Len(stack) :
        /\ stack[d].len = Alen(stack[d - 1].len)
        /\ stack[d].len < stack[d - 1].len
        /\ stack[d - 1].pc = "waiting"
        /\ EqualTriplets(stack[d - 1])

\* C6: a call of the builder on an integer length and a total accessor returns,
\* and it invokes itself only on the strictly smaller problem of size floor(2N/3),
\* and only when two triplets of S12 are equal.
C6_Terminates ==
    /\ <>(phase = "returned")
    /\ []RecursionShrinks

\* C6 witness: a nested activation of a nested activation has finished.
C6_Witness ==
    /\ Len(stack) = 3
    /\ Top.pc = "done"

\* a of the activation f lists S12 in the order of the suffixes.
ASorted(f) ==
    /\ ListsExactly(f.a, S12(f.len))
    /\ SuffixSorted(f.data, f.len, f.a)

\* b of the activation f lists S0 in the order of the suffixes.
BSorted(f) ==
    /\ ListsExactly(f.b, S0(f.len))
    /\ SuffixSorted(f.data, f.len, f.b)

\* The position p read for a tie is an index the lookup table ranks, or padding.
RankedOrPadding(f, p) == p \in DOMAIN f.lookup \/ p >= f.len

\* C7: in the merge, with a and b each in the order of the suffixes, the
\* positions looked up for a tie are ranked S12 indices or padding, and x = a[i]
\* is emitted before y = b[j] exactly when the suffix at x is the smaller one,
\* also next to the end of the sequence.
C7_MergeOrder ==
    (/\ OuterCase
     /\ Outer.pc = "merge"
     /\ Outer.i < Alen(Outer.len) /\ Outer.jm < Blen(Outer.len)
     /\ ASorted(Outer) /\ BSorted(Outer)) =>
        LET x == Outer.a[Outer.i + 1]
            y == Outer.b[Outer.jm + 1]
            o == IF x % 3 = 1 THEN 1 ELSE 2
        IN /\ RankedOrPadding(Outer, x + o)
           /\ RankedOrPadding(Outer, y + o)
           /\ TakesA(Outer, x, y) <=> SuffixLess(Outer.data, Outer.len, x, y)

\* C8: after the sort of S0, with a in the order of the suffixes, b holds the
\* ceil(N/3) indices divisible by 3 in the order of their suffixes; for
\* N mod 3 = 1 the index N-1 comes before every other one of its first symbol.
C8_S0Sorted ==
    (OuterCase /\ Outer.pc = "lookup" /\ ASorted(Outer)) =>
        /\ Len(Outer.b) = (Outer.len + 2) \div 3
        /\ BSorted(Outer)

\* C9: after the recurse-or-accept step a holds every index of S12 exactly once
\* in the order of the suffixes of the sequence, with and without recursion,
\* for every N mod 3.
C9_S12Sorted ==
    (OuterCase /\ Outer.pc = "sortS0") => ASorted(Outer)

\* C10: bsort returns a stable permutation of its items in ascending order of
\* their keys (keys below 2^31, the empty array and all-equal keys included),
\* after bits/4 passes where bits is 8, 16, 24 or 32 and covers the maximum key.
C10_StableSort ==
    bs.pc = "returned" =>
        /\ ListsExactly(bs.a, Range(bs.orig))
        /\ \A p \in 1..(Len(bs.a) - 1) :
              \/ bs.key[bs.a[p]] < bs.key[bs.a[p + 1]]
              \/ /\ bs.key[bs.a[p]] = bs.key[bs.a[p + 1]]
                 /\ bs.a[p] < bs.a[p + 1]
        /\ bs.bits \in {8, 16, 24, 32}
        /\ bs.d = bs.bits
        /\ bs.bits < 32 => bs.j < 2 ^ bs.bits

\* C10 witness: bsort returned three items, two of them with equal keys, one key
\* needing more than 8 bits, given in an order that was not ascending.
C10_Witness ==
    /\ bs.pc = "returned"
    /\ Len(bs.a) = 3
    /\ bs.bits > 8
    /\ bs.a # bs.orig
    /\ \E p, q \in 1..3 : p # q /\ bs.key[p] = bs.key[q]

====
